---------------------------- MODULE Spec2Model ----------------------------
(***************************************************************************)
(* Model of the quiz page component, src/app/quiz/[slug]/page.tsx: the      *)
(* question-set preparation (removeDuplicateQuestions, secureShuffleArray,  *)
(* loadQuestions) and the exam session kept in the component's state        *)
(* (timer effect, handleAnswer, handleSubmitRequest, handleSubmit,          *)
(* handleSubmitCancel, handleRestart).                                      *)
(*                                                                          *)
(* Strings are sequences of one-character strings, so that trim(),          *)
(* toLowerCase(), sort(), join() and parseInt() are computed rather than    *)
(* assumed.  A JavaScript number is a record [nan, n]: NaN, or the integer  *)
(* n.  Array positions are zero-based in the source; a question at source   *)
(* position i is element i + 1 of the sequence that models the array.       *)
(***************************************************************************)
EXTENDS Integers, Sequences, FiniteSets, TLC

-----------------------------------------------------------------------------
(* JavaScript numbers *)

NaN == [nan |-> TRUE, n |-> 0]

Num(k) == [nan |-> FALSE, n |-> k]

\* a * b
Times(a, b) == IF a.nan \/ b.nan THEN NaN ELSE Num(a.n * b.n)

\* a - b
Minus(a, b) == IF a.nan \/ b.nan THEN NaN ELSE Num(a.n - b.n)

\* a <= b (false whenever an operand is NaN)
LessEq(a, b) == ~a.nan /\ ~b.nan /\ a.n <= b.n

\* Math.min(a, b)
MathMin(a, b) == IF a.nan \/ b.nan THEN NaN ELSE IF a.n <= b.n THEN a ELSE b

-----------------------------------------------------------------------------
(* Characters and strings *)

Digits == <<"0", "1", "2", "3", "4", "5", "6", "7", "8", "9">>

IsDigit(c) == \E d \in 1..10 : Digits[d] = c

DigitValue(c) == (CHOOSE d \in 1..10 : Digits[d] = c) - 1

IsSpace(c) == c = " "

\* UTF-16 code unit of the characters the model uses (the order sort() uses)
CharCode(c) ==
  CASE c = " " -> 32
    [] c = "+" -> 43
    [] c = "-" -> 45
    [] IsDigit(c) -> 48 + DigitValue(c)
    [] c = "A" -> 65
    [] c = "B" -> 66
    [] c = "C" -> 67
    [] c = "_" -> 95
    [] c = "a" -> 97
    [] c = "b" -> 98
    [] c = "c" -> 99
    [] c = "q" -> 113
    [] c = "x" -> 120
    [] c = "|" -> 124

\* String.prototype.toLowerCase, character by character
LowerChar(c) ==
  CASE c = "A" -> "a"
    [] c = "B" -> "b"
    [] c = "C" -> "c"
    [] OTHER -> c

ToLowerCase(s) == [k \in 1..Len(s) |-> LowerChar(s[k])]

RECURSIVE TrimStart(_)
TrimStart(s) ==
  IF s # <<>> /\ IsSpace(Head(s)) THEN TrimStart(Tail(s)) ELSE s

RECURSIVE TrimEnd(_)
TrimEnd(s) ==
  IF s # <<>> /\ IsSpace(s[Len(s)]) THEN TrimEnd(SubSeq(s, 1, Len(s) - 1)) ELSE s

\* String.prototype.trim
Trim(s) == TrimEnd(TrimStart(s))

\* s < t in the order of the default Array.prototype.sort comparator
RECURSIVE StrLess(_, _)
StrLess(s, t) ==
  IF t = <<>> THEN FALSE
  ELSE IF s = <<>> THEN TRUE
  ELSE IF CharCode(Head(s)) # CharCode(Head(t))
       THEN CharCode(Head(s)) < CharCode(Head(t))
       ELSE StrLess(Tail(s), Tail(t))

RECURSIVE InsertSorted(_, _)
InsertSorted(s, sorted) ==
  IF sorted = <<>> THEN <<s>>
  ELSE IF StrLess(s, Head(sorted)) THEN <<s>> \o sorted
       ELSE <<Head(sorted)>> \o InsertSorted(s, Tail(sorted))

\* Array.prototype.sort() on an array of strings
RECURSIVE SortStrings(_)
SortStrings(ss) ==
  IF ss = <<>> THEN <<>> ELSE InsertSorted(Head(ss), SortStrings(Tail(ss)))

\* Array.prototype.join('|')
RECURSIVE JoinBar(_)
JoinBar(ss) ==
  IF ss = <<>> THEN <<>>
  ELSE IF Len(ss) = 1 THEN Head(ss)
       ELSE Head(ss) \o <<"|">> \o JoinBar(Tail(ss))

-----------------------------------------------------------------------------
(* The count parameter *)

\* searchParams.get('count') of a URL without the parameter
null == <<"null">>

RECURSIVE DigitsValue(_, _)
DigitsValue(s, acc) ==
  IF s = <<>> \/ ~IsDigit(Head(s)) THEN acc
  ELSE DigitsValue(Tail(s), 10 * acc + DigitValue(Head(s)))

\* parseInt(s, 10): leading white space skipped, an optional sign, then the
\* longest run of decimal digits; NaN when there is no digit
parseInt(s) ==
  LET t == TrimStart(s)
      neg == t # <<>> /\ Head(t) = "-"
      u == IF t # <<>> /\ Head(t) \in {"-", "+"} THEN Tail(t) ELSE t
  IN IF u = <<>> \/ ~IsDigit(Head(u)) THEN NaN
     ELSE Num((IF neg THEN -1 ELSE 1) * DigitsValue(u, 0))

timePerQuestion == 30

calculateTimeLimit(count) == Times(count, Num(timePerQuestion))

-----------------------------------------------------------------------------
(* Questions and the question-set preparation *)

\* a Question without the optional id field
undefined == <<"undefined">>

Question(id, question, options, answer) ==
  [id |-> id, question |-> question, options |-> options, answer |-> answer]

\* `${question.question.trim().toLowerCase()}|${question.options.map(opt =>
\*   opt.trim().toLowerCase()).sort().join('|')}`
questionKey(q) ==
  ToLowerCase(Trim(q.question)) \o <<"|">> \o
  JoinBar(SortStrings([k \in 1..Len(q.options) |-> ToLowerCase(Trim(q.options[k]))]))

\* `q_${Date.now()}_${index}_${Math.random().toString(36).substr(2, 9)}`
generatedId(now, index, suffix) ==
  <<"q", "_">> \o now \o <<"_", Digits[index + 1], "_">> \o suffix

\* question.id || generated: undefined and '' are both falsy
idOrGenerated(q, now, index, suffix) ==
  IF q.id = undefined \/ q.id = <<>> THEN generatedId(now, index, suffix) ELSE q.id

\* The forEach of removeDuplicateQuestions from zero-based position index on:
\* seen is the key set so far, now[k] and suffix[k] what Date.now() and
\* Math.random() yield at element k
RECURSIVE dedupFrom(_, _, _, _, _)
dedupFrom(questions, index, seen, now, suffix) ==
  IF index >= Len(questions) THEN <<>>
  ELSE LET q == questions[index + 1]
           key == questionKey(q)
       IN IF key \notin seen
          THEN <<[q EXCEPT !.id = idOrGenerated(q, now[index + 1], index, suffix[index + 1])]>>
               \o dedupFrom(questions, index + 1, seen \cup {key}, now, suffix)
          ELSE dedupFrom(questions, index + 1, seen, now, suffix)

removeDuplicateQuestions(questions, now, suffix) ==
  dedupFrom(questions, 0, {}, now, suffix)

\* swap that assigns shuffled[i] = shuffled[j] alone
swapOverwriting(shuffled, i, j) ==
  [shuffled EXCEPT ![i + 1] = shuffled[j + 1]]

\* [shuffled[i], shuffled[j]] = [shuffled[j], shuffled[i]], zero-based i, j
swap(shuffled, i, j) ==
  [shuffled EXCEPT ![i + 1] = shuffled[j + 1], ![j + 1] = shuffled[i + 1]]

\* getRandomInt(max): some integer of 0 .. max - 1
getRandomInt(max) == 0..(max - 1)

\* The loop of secureShuffleArray from zero-based i downwards: the set of
\* arrays it can end with, one per outcome of the random choices
RECURSIVE shuffleFrom(_, _)
shuffleFrom(shuffled, i) ==
  IF i > 0
  THEN UNION {shuffleFrom(swap(shuffled, i, j), i - 1) : j \in getRandomInt(i + 1)}
  ELSE {shuffled}

\* The arrays secureShuffleArray(array) can return
secureShuffleArray(array) == shuffleFrom(array, Len(array) - 1)

\* A call secureShuffleArray(array): result is the array returned, argument
\* the caller's array after the call (const shuffled = [...array] copies it,
\* so the swaps do not reach it)
secureShuffleCall(array) ==
  { [argument |-> array, result |-> shuffled] : shuffled \in secureShuffleArray(array) }

\* Array.prototype.slice(0, end): NaN counts as 0, a negative end counts
\* from the back
slice0(array, end) ==
  LET len == Len(array)
      k == IF end.nan THEN 0
           ELSE IF end.n < 0 THEN (IF len + end.n < 0 THEN 0 ELSE len + end.n)
           ELSE IF end.n > len THEN len ELSE end.n
  IN SubSeq(array, 1, k)

\* index of the first element with the id of array[index + 1] (findIndex)
findIndexById(array, id) ==
  CHOOSE k \in 0..(Len(array) - 1) :
    /\ array[k + 1].id = id
    /\ \A m \in 0..(k - 1) : array[m + 1].id # id

RECURSIVE SelectIndices(_, _, _)
SelectIndices(array, index, keep) ==
  IF index >= Len(array) THEN <<>>
  ELSE (IF index \in keep THEN <<array[index + 1]>> ELSE <<>>)
       \o SelectIndices(array, index + 1, keep)

\* quizQuestions.filter((question, index, self) =>
\*   index === self.findIndex(q => q.id === question.id))
finalQuestions(quizQuestions) ==
  SelectIndices(quizQuestions, 0,
    {index \in 0..(Len(quizQuestions) - 1) :
       index = findIndexById(quizQuestions, quizQuestions[index + 1].id)})

\* The sampled slice of one shuffle outcome
quizQuestions(shuffledQuestions, questionCount) ==
  slice0(shuffledQuestions, MathMin(questionCount, Num(Len(shuffledQuestions))))

\* What loadQuestions leaves in topicQuestions: setTopicQuestions(finalQuestions)
\* is followed in the same batch by setTopicQuestions(quizQuestions), so the
\* sampled slice is what the state holds
loadedQuestions(shuffledQuestions, questionCount) ==
  LET writes == << finalQuestions(quizQuestions(shuffledQuestions, questionCount)),
                   quizQuestions(shuffledQuestions, questionCount) >>
  IN writes[Len(writes)]

-----------------------------------------------------------------------------
(* The pages the model opens: a count parameter and what the fetch of        *)
(* /data/questions/<slug>.json yields                                        *)

RawTwo ==
  << Question(<<"a">>, <<"A">>, << <<"a">>, <<"b">> >>, <<"a">>),
     Question(<<"b">>, <<"B">>, << <<"a">>, <<"b">> >>, <<"b">>) >>

RawOne ==
  << Question(<<"a">>, <<"A">>, << <<"a">>, <<"b">> >>, <<"a">>) >>

\* the first two differ only in case, white space and option order; the
\* first has no id; the answer of the last is none of its options
RawDup ==
  << Question(undefined, <<"A", " ">>, << <<"a">>, <<"b">> >>, <<"a">>),
     Question(<<"b">>, <<"a">>, << <<"B">>, <<"a", " ">> >>, <<"B">>),
     Question(<<"c">>, <<"C">>, << <<"a">>, <<"b">> >>, <<"A">>) >>

\* the fetch rejects (transport failure)
FetchError == [kind |-> "error", ok |-> FALSE, body |-> <<>>]

\* the fetch resolves with a response: ok is response.ok, body the parsed JSON
Response(ok, body) == [kind |-> "response", ok |-> ok, body |-> body]

Page(count, response) == [count |-> count, response |-> response]

Pages ==
  { Page(<<"1">>, Response(TRUE, RawTwo)),
    Page(<<"2">>, Response(TRUE, RawTwo)),
    Page(<<"2">>, Response(TRUE, RawDup)),
    Page(<<"1">>, Response(FALSE, <<>>)),
    Page(<<"1">>, FetchError),
    Page(<<"2">>, Response(TRUE, <<>>)),
    Page(null, Response(TRUE, RawOne)),
    Page(<<>>, Response(TRUE, RawOne)),
    Page(<<"x">>, Response(TRUE, RawOne)),
    Page(<<"0">>, Response(TRUE, RawOne)),
    Page(<<"-", "1">>, Response(TRUE, RawTwo)) }

\* what Date.now() and Math.random().toString(36).substr(2, 9) can yield
Nows == { <<"7">> }

Suffixes == { <<"x">>, <<"q">> }

\* ticks of the interval timer followed per page
MaxTicks == 600

-----------------------------------------------------------------------------
(* The component state *)

VARIABLES
  page,               \* the URL's count parameter and the fetch outcome
  loading,            \* loadQuestions has not finished
  topicQuestions,     \* useState<Question[]>([])
  answers,            \* useState<QuizAnswer[]>([])
  isSubmitted,        \* useState(false)
  timeLeft,           \* useState(calculateTimeLimit(questionCount))
  isTimeUp,           \* useState(false)
  showSubmitConfirm,  \* useState(false)
  timer,              \* the interval of the timer effect is registered
  ticks,              \* interval callbacks run since the mount or the last restart
  lastOp,             \* the handler that ran last, with handleAnswer's arguments
  locals              \* the constants of the loadQuestions run, once it has finished

vars ==
  << page, loading, topicQuestions, answers, isSubmitted, timeLeft, isTimeUp,
     showSubmitConfirm, timer, ticks, lastOp, locals >>

\* The constants of loadQuestions: q, uniqueQuestions as removeDuplicateQuestions
\* returned it and as it is after secureShuffleArray(uniqueQuestions) ran,
\* shuffledQuestions, quizQuestions and finalQuestions
Locals(q, uniqueQuestions, call, count) ==
  [q |-> q,
   uniqueQuestions |-> uniqueQuestions,
   uniqueQuestionsAfter |-> call.argument,
   shuffledQuestions |-> call.result,
   quizQuestions |-> quizQuestions(call.result, count),
   finalQuestions |-> finalQuestions(quizQuestions(call.result, count))]

\* before loadQuestions has got past the fetch
NoLocals ==
  [q |-> <<>>, uniqueQuestions |-> <<>>, uniqueQuestionsAfter |-> <<>>,
   shuffledQuestions |-> <<>>, quizQuestions |-> <<>>, finalQuestions |-> <<>>]

\* no selection: what lastOp.previous holds when handleAnswer found no entry
none == <<"none">>

Op(name) ==
  [op |-> name, questionIndex |-> -1, selectedAnswer |-> none, previous |-> none]

\* previous: the selection recorded for questionIndex when the call was made
AnswerOp(questionIndex, selectedAnswer, previous) ==
  [op |-> "answer", questionIndex |-> questionIndex,
   selectedAnswer |-> selectedAnswer, previous |-> previous]

\* parseInt(searchParams.get('count') || '20', 10)
questionCountOf(count) ==
  parseInt(IF count = null \/ count = <<>> THEN <<"2", "0">> ELSE count)

questionCount == questionCountOf(page.count)

\* timerEffect with isSubmitted left out of the condition and the dependencies
timerEffectIgnoringSubmitted(submitted, timeUp) == ~timeUp

\* The timer effect after a commit: the cleanup clears the interval, and a
\* new one is registered unless isSubmitted || isTimeUp
timerEffect(submitted, timeUp) == ~(submitted \/ timeUp)

Init ==
  /\ page \in Pages
  /\ loading = TRUE
  /\ topicQuestions = <<>>
  /\ answers = <<>>
  /\ isSubmitted = FALSE
  /\ timeLeft = calculateTimeLimit(questionCount)
  /\ isTimeUp = FALSE
  /\ showSubmitConfirm = FALSE
  /\ timer = timerEffect(FALSE, FALSE)
  /\ ticks = 0
  /\ lastOp = Op("mount")
  /\ locals = NoLocals

-----------------------------------------------------------------------------
(* The timer effect *)

\* tickUpdater with the test prev <= 0
tickUpdaterBelowOne(prev) ==
  IF LessEq(prev, Num(0))
  THEN [timeLeft |-> Num(0), timeUp |-> TRUE]
  ELSE [timeLeft |-> Minus(prev, Num(1)), timeUp |-> FALSE]

\* The updater the interval callback hands to setTimeLeft, applied to prev:
\* the new timeLeft, and whether it called setIsTimeUp(true) and
\* setIsSubmitted(true)
tickUpdater(prev) ==
  IF LessEq(prev, Num(1))
  THEN [timeLeft |-> Num(0), timeUp |-> TRUE]
  ELSE [timeLeft |-> Minus(prev, Num(1)), timeUp |-> FALSE]

\* One callback of the interval, and the commit that follows it. The callbacks
\* are counted up to MaxTicks; with timeLeft NaN a callback leaves the state as
\* it is (NaN - 1 is NaN), so they go on past the count
Tick ==
  /\ timer
  /\ ticks < MaxTicks \/ timeLeft.nan
  /\ LET r == tickUpdater(timeLeft)
     IN /\ timeLeft' = r.timeLeft
        /\ isTimeUp' = (IF r.timeUp THEN TRUE ELSE isTimeUp)
        /\ isSubmitted' = (IF r.timeUp THEN TRUE ELSE isSubmitted)
  /\ timer' = timerEffect(isSubmitted', isTimeUp')
  /\ ticks' = (IF ticks < MaxTicks THEN ticks + 1 ELSE ticks)
  /\ lastOp' = Op("tick")
  /\ UNCHANGED << page, locals, loading, topicQuestions, answers, showSubmitConfirm >>

-----------------------------------------------------------------------------
(* The question loading effect *)

\* loadQuestions whose catch block calls loadQuestions again
LoadQuestionsRetrying ==
  /\ loading
  /\ IF page.response.kind = "response" /\ page.response.ok
     THEN \E now \in [1..Len(page.response.body) -> Nows],
             suffix \in [1..Len(page.response.body) -> Suffixes] :
            LET uniqueQuestions == removeDuplicateQuestions(page.response.body, now, suffix)
            IN \E call \in secureShuffleCall(uniqueQuestions) :
                 /\ topicQuestions' = loadedQuestions(call.result, questionCount)
                 /\ locals' = Locals(page.response.body, uniqueQuestions, call, questionCount)
                 /\ loading' = FALSE
     ELSE topicQuestions' = <<>> /\ locals' = locals /\ loading' = TRUE
  /\ lastOp' = Op("load")
  /\ UNCHANGED << page, answers, isSubmitted, timeLeft, isTimeUp, showSubmitConfirm,
                  timer, ticks >>

\* loadQuestions from the point where the fetch settles: a rejected fetch or
\* a response that is not ok ends in the catch block
LoadQuestions ==
  /\ loading
  /\ loading' = FALSE
  /\ IF page.response.kind = "response" /\ page.response.ok
     THEN \E now \in [1..Len(page.response.body) -> Nows],
             suffix \in [1..Len(page.response.body) -> Suffixes] :
            LET uniqueQuestions == removeDuplicateQuestions(page.response.body, now, suffix)
            IN \E call \in secureShuffleCall(uniqueQuestions) :
                 /\ topicQuestions' = loadedQuestions(call.result, questionCount)
                 /\ locals' = Locals(page.response.body, uniqueQuestions, call, questionCount)
     ELSE topicQuestions' = <<>> /\ locals' = locals
  /\ lastOp' = Op("load")
  /\ UNCHANGED << page, answers, isSubmitted, timeLeft, isTimeUp, showSubmitConfirm,
                  timer, ticks >>

-----------------------------------------------------------------------------
(* The handlers *)

\* The component returns the loading screen while topicQuestions is empty
\* (no button is rendered then)
rendered == Len(topicQuestions) # 0

\* prev.find(a => a.questionIndex === questionIndex) found an entry
existing(prev, questionIndex) ==
  \E k \in 1..Len(prev) : prev[k].questionIndex = questionIndex

\* upsertAnswer whose update branch is { ...a, selectedAnswer }
upsertAnswerKeepingIsCorrect(prev, questionIndex, selectedAnswer, isCorrect) ==
  IF existing(prev, questionIndex)
  THEN [k \in 1..Len(prev) |->
          IF prev[k].questionIndex = questionIndex
          THEN [prev[k] EXCEPT !.selectedAnswer = selectedAnswer]
          ELSE prev[k]]
  ELSE Append(prev, [questionIndex |-> questionIndex,
                     selectedAnswer |-> selectedAnswer,
                     isCorrect |-> isCorrect])

\* upsertAnswer without the update branch
upsertAnswerAppending(prev, questionIndex, selectedAnswer, isCorrect) ==
  Append(prev, [questionIndex |-> questionIndex,
                selectedAnswer |-> selectedAnswer,
                isCorrect |-> isCorrect])

\* The updater handleAnswer hands to setAnswers, applied to prev
upsertAnswer(prev, questionIndex, selectedAnswer, isCorrect) ==
  IF existing(prev, questionIndex)
  THEN [k \in 1..Len(prev) |->
          IF prev[k].questionIndex = questionIndex
          THEN [prev[k] EXCEPT !.selectedAnswer = selectedAnswer, !.isCorrect = isCorrect]
          ELSE prev[k]]
  ELSE Append(prev, [questionIndex |-> questionIndex,
                     selectedAnswer |-> selectedAnswer,
                     isCorrect |-> isCorrect])

\* getAnswerForQuestion(questionIndex)?.selectedAnswer
selectionFor(prev, questionIndex) ==
  IF existing(prev, questionIndex)
  THEN prev[CHOOSE k \in 1..Len(prev) : prev[k].questionIndex = questionIndex].selectedAnswer
  ELSE none

\* handleAnswer without the early return
answerNeverIgnored == FALSE

\* handleAnswer(questionIndex, selectedAnswer) returns at once when
\* isSubmitted
answerIgnored == isSubmitted

\* handleAnswer comparing selectedAnswer and question.answer in lower case
HandleAnswerIgnoringCase(questionIndex, selectedAnswer) ==
  /\ rendered
  /\ questionIndex \in 0..(Len(topicQuestions) - 1)
  /\ IF answerIgnored
     THEN answers' = answers
     ELSE LET question == topicQuestions[questionIndex + 1]
              isCorrect == ToLowerCase(selectedAnswer) = ToLowerCase(question.answer)
          IN answers' = upsertAnswer(answers, questionIndex, selectedAnswer, isCorrect)
  /\ lastOp' = AnswerOp(questionIndex, selectedAnswer, selectionFor(answers, questionIndex))
  /\ UNCHANGED << page, locals, loading, topicQuestions, isSubmitted, timeLeft, isTimeUp,
                  showSubmitConfirm, timer, ticks >>

\* handleAnswer(questionIndex, selectedAnswer), called as the option buttons
\* call it: a position of topicQuestions and one of that question's options
HandleAnswer(questionIndex, selectedAnswer) ==
  /\ rendered
  /\ questionIndex \in 0..(Len(topicQuestions) - 1)
  /\ IF answerIgnored
     THEN answers' = answers
     ELSE LET question == topicQuestions[questionIndex + 1]
              isCorrect == selectedAnswer = question.answer
          IN answers' = upsertAnswer(answers, questionIndex, selectedAnswer, isCorrect)
  /\ lastOp' = AnswerOp(questionIndex, selectedAnswer, selectionFor(answers, questionIndex))
  /\ UNCHANGED << page, locals, loading, topicQuestions, isSubmitted, timeLeft, isTimeUp,
                  showSubmitConfirm, timer, ticks >>

\* the submit button rendered in the results view too
submitButtonAlwaysRendered == rendered

\* The "Sinavi Bitir" button is rendered only while !isSubmitted
submitButtonRendered == rendered /\ ~isSubmitted

HandleSubmitRequest ==
  /\ submitButtonRendered
  /\ showSubmitConfirm' = TRUE
  /\ lastOp' = Op("submitRequest")
  /\ UNCHANGED << page, locals, loading, topicQuestions, answers, isSubmitted, timeLeft,
                  isTimeUp, timer, ticks >>

\* The confirmation popup, with its two buttons, is rendered while
\* showSubmitConfirm
popupRendered == rendered /\ showSubmitConfirm

HandleSubmit ==
  /\ popupRendered
  /\ showSubmitConfirm' = FALSE
  /\ isSubmitted' = TRUE
  /\ timer' = timerEffect(isSubmitted', isTimeUp)
  /\ lastOp' = Op("submit")
  /\ UNCHANGED << page, locals, loading, topicQuestions, answers, timeLeft, isTimeUp, ticks >>

\* handleSubmitCancel with the body of handleSubmit
HandleSubmitCancelSubmitting ==
  /\ popupRendered
  /\ showSubmitConfirm' = FALSE
  /\ isSubmitted' = TRUE
  /\ timer' = timerEffect(isSubmitted', isTimeUp)
  /\ lastOp' = Op("submitCancel")
  /\ UNCHANGED << page, locals, loading, topicQuestions, answers, timeLeft, isTimeUp, ticks >>

HandleSubmitCancel ==
  /\ popupRendered
  /\ showSubmitConfirm' = FALSE
  /\ lastOp' = Op("submitCancel")
  /\ UNCHANGED << page, locals, loading, topicQuestions, answers, isSubmitted, timeLeft,
                  isTimeUp, timer, ticks >>

\* The "Tekrar Dene" button belongs to the results view, rendered while
\* isSubmitted
restartButtonRendered == rendered /\ isSubmitted

\* handleRestart that shuffles the questions again
HandleRestartReshuffling ==
  /\ restartButtonRendered
  /\ answers' = <<>>
  /\ isSubmitted' = FALSE
  /\ timeLeft' = calculateTimeLimit(questionCount)
  /\ isTimeUp' = FALSE
  /\ timer' = timerEffect(isSubmitted', isTimeUp')
  /\ ticks' = 0
  /\ lastOp' = Op("restart")
  /\ topicQuestions' \in secureShuffleArray(topicQuestions)
  /\ UNCHANGED << page, locals, loading, showSubmitConfirm >>

\* handleRestart without setTimeLeft
HandleRestartKeepingTime ==
  /\ restartButtonRendered
  /\ answers' = <<>>
  /\ isSubmitted' = FALSE
  /\ isTimeUp' = FALSE
  /\ timer' = timerEffect(isSubmitted', isTimeUp')
  /\ ticks' = 0
  /\ lastOp' = Op("restart")
  /\ UNCHANGED << page, locals, loading, topicQuestions, showSubmitConfirm, timeLeft >>

\* handleRestart without setIsTimeUp(false)
HandleRestartKeepingTimeUp ==
  /\ restartButtonRendered
  /\ answers' = <<>>
  /\ isSubmitted' = FALSE
  /\ timeLeft' = calculateTimeLimit(questionCount)
  /\ timer' = timerEffect(isSubmitted', isTimeUp)
  /\ ticks' = 0
  /\ lastOp' = Op("restart")
  /\ UNCHANGED << page, locals, loading, topicQuestions, showSubmitConfirm, isTimeUp >>

HandleRestart ==
  /\ restartButtonRendered
  /\ answers' = <<>>
  /\ isSubmitted' = FALSE
  /\ timeLeft' = calculateTimeLimit(questionCount)
  /\ isTimeUp' = FALSE
  /\ timer' = timerEffect(isSubmitted', isTimeUp')
  /\ ticks' = 0
  /\ lastOp' = Op("restart")
  /\ UNCHANGED << page, locals, loading, topicQuestions, showSubmitConfirm >>

\* score counting every answer
scoreCountingAll == Len(answers)

\* answers.filter(a => a.isCorrect).length
score == Cardinality({k \in 1..Len(answers) : answers[k].isCorrect})

\* answers.length
answeredCount == Len(answers)

\* (answeredCount / topicQuestions.length) * 100, as the fraction num / den
progressPercentage == [num |-> answeredCount * 100, den |-> Len(topicQuestions)]

\* topicQuestions.length - answeredCount, the count the popup shows
unanswered == Len(topicQuestions) - answeredCount

\* A click on an option button: onClick={() => handleAnswer(index, option)}
Answer ==
  \E index \in 0..(Len(topicQuestions) - 1) :
    \E optionIndex \in 1..Len(topicQuestions[index + 1].options) :
      HandleAnswer(index, topicQuestions[index + 1].options[optionIndex])

Next ==
  \/ Tick
  \/ LoadQuestions
  \/ Answer
  \/ HandleSubmitRequest
  \/ HandleSubmit
  \/ HandleSubmitCancel
  \/ HandleRestart

Spec == Init /\ [][Next]_vars

\* The session with its interval timer running: while an interval is
\* registered its callback runs every 1000 ms; the effect depends on
\* isSubmitted and isTimeUp only, so no click of the user clears the interval
\* short of a submission
SpecLive == Init /\ [][Next]_vars /\ WF_vars(Tick)

-----------------------------------------------------------------------------
(* The question-set preparation on its own: pages over every question list  *)
(* of a bounded length, followed up to the end of loadQuestions             *)

\* questions a fetched list is made of: qA2 is qA up to case, white space and
\* option order; qB has qA's id and another text; qN has no id, and its
\* answer is none of its options; qP has another text and other options
\* than qA
qA == Question(<<"a">>, <<"A">>, << <<"a">>, <<"b">> >>, <<"a">>)

qA2 == Question(<<"b">>, <<" ", "a">>, << <<"B">>, <<"a", " ">> >>, <<"B">>)

qB == Question(<<"a">>, <<"B">>, << <<"a">>, <<"b">> >>, <<"b">>)

qN == Question(undefined, <<"C">>, << <<"a">>, <<"b">> >>, <<"A">>)

qP == Question(<<"c">>, <<"a", "|", "a">>, << <<"b">> >>, <<"b">>)

Pool == { qA, qA2, qB, qN, qP }

\* longest fetched list
MaxLen == 3

RawLists == UNION { [1..n -> Pool] : n \in 0..MaxLen }

PrepCounts == { <<"-", "1">>, <<"0">>, <<"1">>, <<"2">>, <<"3">>, null }

PrepPages == { Page(count, Response(TRUE, q)) : count \in PrepCounts, q \in RawLists }

PrepInit ==
  /\ page \in PrepPages
  /\ loading = TRUE
  /\ topicQuestions = <<>>
  /\ answers = <<>>
  /\ isSubmitted = FALSE
  /\ timeLeft = calculateTimeLimit(questionCount)
  /\ isTimeUp = FALSE
  /\ showSubmitConfirm = FALSE
  /\ timer = timerEffect(FALSE, FALSE)
  /\ ticks = 0
  /\ lastOp = Op("mount")
  /\ locals = NoLocals

PrepNext == LoadQuestions

SpecPrep == PrepInit /\ [][PrepNext]_vars

-----------------------------------------------------------------------------
(* Properties of the exam session *)

\* the starting time of the session
StartTime == calculateTimeLimit(questionCount)

\* positions of the entries of an answer array recorded for questionIndex
EntriesFor(array, questionIndex) ==
  {k \in 1..Len(array) : array[k].questionIndex = questionIndex}

\* the entries of an answer array recorded for questionIndex
AnswersFor(array, questionIndex) ==
  {array[k] : k \in EntriesFor(array, questionIndex)}

\* no two entries of an answer array are recorded for one questionIndex
OneEntryPerIndex(array) ==
  \A k, m \in 1..Len(array) :
    array[k].questionIndex = array[m].questionIndex => k = m

\* the remaining time is the starting time T >= 1 less the ticks delivered
CountedDown(left, delivered) ==
  (~StartTime.nan /\ StartTime.n >= 1) =>
    (delivered <= StartTime.n /\ left = Num(StartTime.n - delivered))

\* C1: the answer array never holds two entries for one questionIndex; a
\* call of handleAnswer(i, opt) accepted by the session leaves exactly one
\* entry for i, carrying opt and opt === question.answer, and the entries of
\* the other indices as they were; no step other than an answer or a restart
\* changes the array.
C1_OneAnswerPerIndex ==
  /\ OneEntryPerIndex(answers)
  /\ [][OneEntryPerIndex(answers')]_vars
  /\ [][(lastOp'.op = "answer" /\ ~isSubmitted) =>
          LET i == lastOp'.questionIndex
              opt == lastOp'.selectedAnswer
          IN /\ AnswersFor(answers', i) =
                  { [questionIndex |-> i, selectedAnswer |-> opt,
                     isCorrect |-> (opt = topicQuestions[i + 1].answer)] }
             /\ Cardinality(EntriesFor(answers', i)) = 1
             /\ \A j \in 0..(Len(topicQuestions) - 1) :
                  j # i => AnswersFor(answers', j) = AnswersFor(answers, j)]_vars
  /\ [][lastOp'.op \notin {"answer", "restart"} => answers' = answers]_vars

\* C1 witness: an index answered before another one is answered again with a
\* different option, and its single entry carries the new option.
C1_Witness ==
  /\ lastOp.op = "answer"
  /\ ~isSubmitted
  /\ lastOp.previous \notin {none, lastOp.selectedAnswer}
  /\ Len(answers) = 2
  /\ answers[1].questionIndex = lastOp.questionIndex
  /\ answers[1].selectedAnswer = lastOp.selectedAnswer

\* C2: a call of handleAnswer while isSubmitted changes nothing of the
\* session, and while isSubmitted the answers change only by a restart.
C2_AnswerAfterSubmitIgnored ==
  /\ [][(lastOp'.op = "answer" /\ isSubmitted) =>
          UNCHANGED << answers, timeLeft, isSubmitted, isTimeUp, showSubmitConfirm,
                       topicQuestions, timer, ticks >>]_vars
  /\ [][(isSubmitted /\ answers' # answers) => lastOp'.op = "restart"]_vars

\* C2 witness: handleAnswer was called on a session the timer had submitted,
\* for an option other than the recorded one.
C2_Witness ==
  /\ lastOp.op = "answer"
  /\ isSubmitted
  /\ isTimeUp
  /\ lastOp.previous # lastOp.selectedAnswer

\* C3: with a starting time T >= 1, the remaining time is T less the ticks
\* delivered; a step other than a confirmed submission that leaves fewer than
\* T ticks delivered leaves the session not submitted; the T-th tick leaves
\* it submitted with remaining time 0 and the time-up flag set.
C3_TicksCountDown ==
  /\ CountedDown(timeLeft, ticks)
  /\ [][CountedDown(timeLeft', ticks')]_vars
  /\ [][(~StartTime.nan /\ StartTime.n >= 1 /\ ~isSubmitted
           /\ lastOp'.op # "submit" /\ ticks' < StartTime.n) => ~isSubmitted']_vars
  /\ [][(~StartTime.nan /\ StartTime.n >= 1
           /\ lastOp'.op = "tick" /\ ticks' = StartTime.n) =>
          (isSubmitted' /\ isTimeUp' /\ timeLeft' = Num(0))]_vars

\* C3 witness: the T-th tick fired while the confirmation was pending.
C3_Witness ==
  /\ ~StartTime.nan /\ StartTime.n >= 1
  /\ lastOp.op = "tick"
  /\ ticks = StartTime.n
  /\ showSubmitConfirm
  /\ isSubmitted /\ isTimeUp /\ timeLeft = Num(0)

\* C4: while isSubmitted no interval is registered, and no step other than a
\* restart is a tick or changes the remaining time or the time-up flag.
C4_TimerFrozenWhileSubmitted ==
  /\ (isSubmitted => ~timer)
  /\ [][isSubmitted' => ~timer']_vars
  /\ [][(isSubmitted /\ lastOp'.op # "restart") =>
          (lastOp'.op # "tick" /\ timeLeft' = timeLeft /\ isTimeUp' = isTimeUp)]_vars

\* C4 witness: a step taken after a confirmed submission made with one
\* second left; the session is not a time-up.
C4_Witness ==
  /\ isSubmitted
  /\ ~isTimeUp
  /\ timeLeft = Num(1)
  /\ lastOp.op = "answer"

C6_RestartClearsConfirm ==
  [][lastOp'.op = "restart" => ~showSubmitConfirm']_vars

\* C7 (as claimed): no state has isSubmitted and showSubmitConfirm both set.
C7_NoConfirmWhileSubmitted ==
  ~(isSubmitted /\ showSubmitConfirm)

\* C8 (as claimed): while the fetch is outstanding the remaining time is the
\* starting time and isSubmitted and isTimeUp are false.
C8_NoTransitionWhileLoading ==
  loading => (timeLeft = StartTime /\ ~isSubmitted /\ ~isTimeUp)

\* C9: isSubmitted is set only by handleSubmit taken with the confirmation
\* pending or by a tick that exhausts the timer; the confirmation becomes
\* pending only by handleSubmitRequest, which is taken only while not
\* submitted, sets showSubmitConfirm and leaves isSubmitted false.
C9_SubmittedOnlyByConfirmOrTimeUp ==
  /\ [][(~isSubmitted /\ isSubmitted') =>
          \/ lastOp'.op = "submit" /\ showSubmitConfirm
          \/ lastOp'.op = "tick" /\ isTimeUp' /\ timeLeft' = Num(0)]_vars
  /\ [][(~showSubmitConfirm /\ showSubmitConfirm') => lastOp'.op = "submitRequest"]_vars
  /\ [][lastOp'.op = "submitRequest" =>
          (~isSubmitted /\ ~isSubmitted' /\ showSubmitConfirm')]_vars

\* C9 witness: a session submitted by handleSubmit, not by the timer.
C9_Witness ==
  /\ lastOp.op = "submit"
  /\ isSubmitted
  /\ ~isTimeUp
  /\ ~showSubmitConfirm

\* C10: handleSubmitCancel taken with the confirmation pending clears
\* showSubmitConfirm and changes nothing else; the interval stays registered,
\* and a tick that follows decrements the remaining time (or ends the session
\* when the time is exhausted).
C10_CancelOnlyClearsConfirm ==
  /\ [][(lastOp'.op = "submitCancel" /\ ~isSubmitted) =>
          /\ ~showSubmitConfirm'
          /\ UNCHANGED << answers, timeLeft, isSubmitted, isTimeUp, topicQuestions, ticks >>
          /\ timer /\ timer']_vars
  /\ [][(lastOp.op = "submitCancel" /\ ~isSubmitted /\ lastOp'.op = "tick") =>
          \/ timeLeft' = Minus(timeLeft, Num(1)) /\ ~isSubmitted'
          \/ LessEq(timeLeft, Num(1)) /\ isSubmitted' /\ isTimeUp']_vars

\* C10 witness: a cancelled confirmation on a session with answers and ticks
\* behind it, still running.
C10_Witness ==
  /\ lastOp.op = "submitCancel"
  /\ ~isSubmitted
  /\ ~showSubmitConfirm
  /\ answers # <<>>
  /\ ticks > 0
  /\ timer

-----------------------------------------------------------------------------
(* Properties of the question-set preparation *)

\* loadQuestions has run to its end on a response that was ok
prepared == ~loading /\ page.response.kind = "response" /\ page.response.ok

\* size of the deduplicated list
uniqueCount == Len(locals.uniqueQuestions)

\* number of positions of array that hold x
Occurrences(array, x) == Cardinality({k \in 1..Len(array) : array[k] = x})

\* array and other hold the same elements, each as many times
SameMultiset(array, other) ==
  /\ Len(array) = Len(other)
  /\ \A k \in 1..Len(array) : Occurrences(array, array[k]) = Occurrences(other, array[k])

\* the larger of two integers
Larger(a, b) == IF a >= b THEN a ELSE b

\* the smaller of two integers
Smaller(a, b) == IF a <= b THEN a ELSE b

\* C11 (as claimed): for an integer requested count the prepared sequence
\* has at most min(requestedCount, uniqueCount) entries (none, when that
\* minimum is below 0), and all the deduplicated questions when
\* requestedCount > uniqueCount.
C11_SampleAtMostMin ==
  (prepared /\ ~questionCount.nan) =>
    /\ Len(topicQuestions) <= Larger(0, Smaller(questionCount.n, uniqueCount))
    /\ questionCount.n > uniqueCount => SameMultiset(topicQuestions, locals.uniqueQuestions)

\* C12 (as claimed): every question of the loaded sequence has a non-empty
\* id, and no two of them have the same id.
C12_LoadedIdsUnique ==
  prepared =>
    /\ \A k \in 1..Len(topicQuestions) : topicQuestions[k].id \notin {undefined, <<>>}
    /\ \A k, m \in 1..Len(topicQuestions) :
         topicQuestions[k].id = topicQuestions[m].id => k = m

\* C13 (as claimed): with the count parameter absent or not parsable as an
\* integer the requested count is 20, the starting time 600, and the loaded
\* sequence has min(20, uniqueCount) questions.
C13_DefaultCountTwenty ==
  (page.count = null \/ parseInt(page.count).nan) =>
    /\ questionCount = Num(20)
    /\ StartTime = Num(600)
    /\ prepared => Len(topicQuestions) = Smaller(20, uniqueCount)

\* C14: every recorded answer is for a position of topicQuestions, and its
\* isCorrect is true exactly when its selectedAnswer is the answer string of
\* the question at that position.
C14_IsCorrectIffExactlyEqual ==
  \A k \in 1..Len(answers) :
    /\ answers[k].questionIndex \in 0..(Len(topicQuestions) - 1)
    /\ answers[k].isCorrect =
         (answers[k].selectedAnswer = topicQuestions[answers[k].questionIndex + 1].answer)

\* C14 witness: a selection that was changed from a wrong option to the right
\* one, next to a selection that equals its question's answer only up to
\* case and is recorded as not correct.
C14_Witness ==
  /\ lastOp.op = "answer"
  /\ lastOp.previous \notin {none, lastOp.selectedAnswer}
  /\ \E k, m \in 1..Len(answers) :
       /\ answers[k].questionIndex = lastOp.questionIndex
       /\ answers[k].isCorrect
       /\ ~answers[m].isCorrect
       /\ answers[m].selectedAnswer # topicQuestions[answers[m].questionIndex + 1].answer
       /\ ToLowerCase(answers[m].selectedAnswer) =
            ToLowerCase(topicQuestions[answers[m].questionIndex + 1].answer)

\* the positions of topicQuestions that have a recorded selection
AnsweredIndices ==
  {i \in 0..(Len(topicQuestions) - 1) : selectionFor(answers, i) # none}

\* C15: score is the number of positions whose recorded selection is the
\* question's answer, answeredCount the number of positions answered;
\* 0 <= score <= answeredCount <= topicQuestions.length, the unanswered
\* count is not negative, and on the rendered page progressPercentage is 100
\* exactly when every position is answered.
C15_DerivedValues ==
  /\ score = Cardinality({i \in AnsweredIndices :
                            selectionFor(answers, i) = topicQuestions[i + 1].answer})
  /\ answeredCount = Cardinality(AnsweredIndices)
  /\ 0 <= score /\ score <= answeredCount /\ answeredCount <= Len(topicQuestions)
  /\ unanswered = Len(topicQuestions) - Cardinality(AnsweredIndices)
  /\ unanswered >= 0
  /\ rendered =>
       ((progressPercentage.num = 100 * progressPercentage.den)
          <=> (AnsweredIndices = 0..(Len(topicQuestions) - 1)))

\* C15 witness: both questions answered, one of them correctly.
C15_Witness ==
  /\ Len(topicQuestions) = 2
  /\ answeredCount = 2
  /\ score = 1
  /\ unanswered = 0
  /\ progressPercentage.num = 100 * progressPercentage.den

\* the lower-cased trimmed question text of q
normalizedText(q) == ToLowerCase(Trim(q.question))

\* the sorted lower-cased trimmed options of q
normalizedOptions(q) ==
  SortStrings([k \in 1..Len(q.options) |-> ToLowerCase(Trim(q.options[k]))])

\* the normalized key of q: its text and its options, as a pair
normalizedKey(q) == << normalizedText(q), normalizedOptions(q) >>

\* positions of array whose normalized key occurs at no earlier position
FirstOccurrences(array) ==
  {k \in 1..Len(array) :
     \A m \in 1..(k - 1) : normalizedKey(array[m]) # normalizedKey(array[k])}

\* the elements of array at the positions of keep, in their order
RECURSIVE Kept(_, _, _)
Kept(array, k, keep) ==
  IF k > Len(array) THEN <<>>
  ELSE (IF k \in keep THEN <<array[k]>> ELSE <<>>) \o Kept(array, k + 1, keep)

\* q without its id
WithoutId(q) == [question |-> q.question, options |-> q.options, answer |-> q.answer]

\* C16 (as claimed): removeDuplicateQuestions returns, in input order and up
\* to the id it fills in, the first occurrence of each normalized key (text,
\* sorted options), so no two outputs share a key and an input is dropped
\* only if an earlier one has the same normalized text and options.
C16_DedupKeepsFirstOfEachKey ==
  prepared =>
    LET kept == Kept(locals.q, 1, FirstOccurrences(locals.q))
        out == locals.uniqueQuestions
    IN /\ Len(out) <= Len(locals.q)
       /\ Len(out) = Len(kept)
       /\ \A k \in 1..Len(out) : WithoutId(out[k]) = WithoutId(kept[k])
       /\ \A k, m \in 1..Len(out) :
            normalizedKey(out[k]) = normalizedKey(out[m]) => k = m

\* C17: once loadQuestions has finished it does not run again, and no step
\* of the session changes topicQuestions.
C17_QuestionsFixed ==
  /\ [][~loading => ~loading']_vars
  /\ [][lastOp'.op # "load" => topicQuestions' = topicQuestions]_vars

\* C17 witness: a restart of a session with two questions, which are the
\* sequence loadQuestions installed, in its order.
C17_Witness ==
  /\ lastOp.op = "restart"
  /\ Len(topicQuestions) = 2
  /\ topicQuestions = locals.quizQuestions
  /\ topicQuestions[1] # topicQuestions[2]

\* the fetch rejected, or its response was not ok
fetchFailed == page.response.kind = "error" \/ ~page.response.ok

\* once loadQuestions has ended on a failed fetch: no question, and the
\* loading screen
FailedLoadShown ==
  (fetchFailed /\ ~loading) => (topicQuestions = <<>> /\ ~rendered)

\* C18: after a failed fetch topicQuestions is empty and the loading screen
\* is what the page returns; loadQuestions does not run a second time.
C18_FailedFetchEmptyNoRetry ==
  /\ FailedLoadShown
  /\ [][FailedLoadShown']_vars
  /\ [][(fetchFailed /\ lastOp'.op = "load") => (loading /\ ~loading')]_vars
  /\ [][(fetchFailed /\ ~loading) => (~loading' /\ lastOp'.op # "load")]_vars

\* C18 witness: the session goes on after a fetch that rejected.
C18_Witness ==
  /\ page.response.kind = "error"
  /\ ~loading
  /\ topicQuestions = <<>>
  /\ lastOp.op = "tick"

\* C19: the array secureShuffleArray returns holds the elements of its
\* argument, each as many times, and the argument is as it was.
C19_ShuffleIsPermutation ==
  prepared =>
    /\ SameMultiset(locals.shuffledQuestions, locals.uniqueQuestions)
    /\ locals.uniqueQuestionsAfter = locals.uniqueQuestions

\* C19 witness: three questions returned in another order.
C19_Witness ==
  /\ prepared
  /\ Len(locals.uniqueQuestions) = 3
  /\ locals.shuffledQuestions[1] = locals.uniqueQuestions[3]
  /\ locals.shuffledQuestions[2] = locals.uniqueQuestions[1]

\* the answer of q is none of its options
unscoreable(q) == \A k \in 1..Len(q.options) : q.options[k] # q.answer

\* C20: an answer recorded for a question whose answer is none of its
\* options is never correct and never counts in score; every other answer is
\* correct exactly when it is the question's answer.
C20_UnscoreableNeverCorrect ==
  /\ \A k \in 1..Len(answers) :
       LET q == topicQuestions[answers[k].questionIndex + 1]
       IN IF unscoreable(q)
          THEN ~answers[k].isCorrect
          ELSE answers[k].isCorrect = (answers[k].selectedAnswer = q.answer)
  /\ score = Cardinality({k \in 1..Len(answers) :
                /\ ~unscoreable(topicQuestions[answers[k].questionIndex + 1])
                /\ answers[k].selectedAnswer =
                     topicQuestions[answers[k].questionIndex + 1].answer})

\* C20 witness: an option of an unscoreable question was selected after
\* another question was answered correctly; the score is 1.
C20_Witness ==
  /\ lastOp.op = "answer"
  /\ unscoreable(topicQuestions[lastOp.questionIndex + 1])
  /\ selectionFor(answers, lastOp.questionIndex) = lastOp.selectedAnswer
  /\ Len(answers) = 2
  /\ score = 1

-----------------------------------------------------------------------------
(* Properties of the timer *)

\* the count parameter is absent or empty: the default count applies
defaultCount == page.count = null \/ page.count = <<>>

\* C21: a session opened with the default question count starts with 20
\* minutes, 20 * 60 seconds, of remaining time.
C21_DefaultTwentyMinutes ==
  (defaultCount /\ lastOp.op = "mount") => timeLeft = Num(20 * 60)

\* C22: with the interval timer running, a session that is not submitted is
\* submitted later on, whatever the user does and whatever count the page was
\* opened with; when the time budget is a number, it is submitted once as many
\* ticks as the budget (one tick for a budget below 1) have been delivered.
C22_EventuallySubmitted ==
  /\ ~isSubmitted ~> isSubmitted
  /\ [][(~StartTime.nan /\ ticks' >= Larger(1, StartTime.n)) => isSubmitted']_vars

\* C23 as stated: a tick taken at remaining time 1 lowers it to 0 without
\* submitting, and a tick forces the submission only at remaining time 0.
C23_TickAtOneDoesNotSubmit ==
  /\ [][(lastOp'.op = "tick" /\ timeLeft = Num(1)) =>
          (timeLeft' = Num(0) /\ ~isSubmitted' /\ ~isTimeUp')]_vars
  /\ [][(lastOp'.op = "tick" /\ ~isSubmitted /\ isSubmitted') =>
          timeLeft = Num(0)]_vars

\* C23: a tick taken at a remaining time of 1 or less leaves the remaining
\* time 0, the time-up flag set and the session submitted; a tick taken at a
\* remaining time of 2 or more lowers it by one and submits nothing.
C23_TickAtOneSubmits ==
  /\ [][(lastOp'.op = "tick" /\ ~timeLeft.nan /\ timeLeft.n <= 1) =>
          (timeLeft' = Num(0) /\ isTimeUp' /\ isSubmitted')]_vars
  /\ [][(lastOp'.op = "tick" /\ ~timeLeft.nan /\ timeLeft.n >= 2) =>
          /\ timeLeft' = Num(timeLeft.n - 1)
          /\ isTimeUp' = isTimeUp
          /\ isSubmitted' = isSubmitted]_vars

\* C23 witness: the tick taken at remaining time 1, the last of a budget of
\* 30 or more, submitted a session with an answer and no confirmation pending.
C23_Witness ==
  /\ lastOp.op = "tick"
  /\ ~StartTime.nan /\ StartTime.n >= 2
  /\ ticks = StartTime.n
  /\ ~showSubmitConfirm
  /\ Len(answers) > 0
  /\ timeLeft = Num(0) /\ isTimeUp /\ isSubmitted

\* the remaining time is a number from 0 to the time budget
WithinBudget(left) ==
  /\ ~left.nan /\ ~StartTime.nan
  /\ 0 <= left.n /\ left.n <= StartTime.n

\* C24: the remaining time is always a number from 0 to questionCount * 30;
\* a tick on a session that is not submitted lowers it by exactly one; a step
\* other than a tick or a restart leaves it as it is.
C24_TimeWithinBudgetDecreasing ==
  /\ WithinBudget(timeLeft)
  /\ [][WithinBudget(timeLeft')]_vars
  /\ [][(lastOp'.op = "tick" /\ ~isSubmitted) =>
          (~timeLeft.nan /\ timeLeft' = Num(timeLeft.n - 1))]_vars
  /\ [][lastOp'.op \notin {"tick", "restart"} => timeLeft' = timeLeft]_vars

\* C25: isTimeUp implies isSubmitted and a remaining time of 0; isTimeUp is
\* set only by a tick taken at a remaining time of 1 or less; a step that
\* submits the session leaves isTimeUp set exactly when it is a tick, and no
\* step on a submitted session that stays submitted changes isTimeUp, so a
\* call of handleSubmit never sets it.
C25_TimeUpImpliesSubmitted ==
  /\ isTimeUp => (isSubmitted /\ timeLeft = Num(0))
  /\ [][isTimeUp' => (isSubmitted' /\ timeLeft' = Num(0))]_vars
  /\ [][(~isTimeUp /\ isTimeUp') =>
          (lastOp'.op = "tick" /\ LessEq(timeLeft, Num(1)))]_vars
  /\ [][(~isSubmitted /\ isSubmitted') =>
          (isTimeUp' <=> lastOp'.op = "tick")]_vars
  /\ [][(isSubmitted /\ isSubmitted') => isTimeUp' = isTimeUp]_vars
  /\ [][lastOp'.op = "submit" => isTimeUp' = isTimeUp]_vars

\* C25 witness: the timer submitted the session while the confirmation was
\* pending, and handleSubmit was then called from the popup: the session is
\* still a time-up.
C25_Witness ==
  /\ lastOp.op = "submit"
  /\ isSubmitted
  /\ isTimeUp
  /\ timeLeft = Num(0)
  /\ ~showSubmitConfirm

=============================================================================
